---- MODULE Spec2Model ----
(***************************************************************************)
(* Sezor Cipher Studio (src/src/App.jsx): the transform pipeline engine    *)
(* and the React component state that drives it.                           *)
(*                                                                         *)
(* Representation.                                                         *)
(*  - A JavaScript string is a sequence of UTF-16 code units (naturals).   *)
(*  - A JavaScript number that a step stores (shift, rails) is kept in     *)
(*    halves: the number v is the integer 2*v, so that the values a number *)
(*    input can deliver between two integers (2.5) are representable.      *)
(*    N(n) is the representation of the integer n.                         *)
(*  - A call that throws yields Threw, which is no string.                 *)
(***************************************************************************)
EXTENDS Integers, Sequences, FiniteSets, TLC

VARIABLES
    inputText,          \* useState("")                        App.jsx:623
    steps,              \* useState([createStep(1)])           App.jsx:624
    copyInputStatus,    \* useState("idle")                    App.jsx:625
    copyOutputStatus,   \* useState("idle")                    App.jsx:626
    isLibraryOpen,      \* useState(false)                     App.jsx:627
    insertPosition,     \* useState(0)                         App.jsx:628
    nextId,             \* useRef(2)                           App.jsx:629
    pending,            \* the navigator.clipboard.writeText calls copyText awaits   App.jsx:734
    completed,          \* history: the text of the copyText call that completed last, per copy button
    removedIds,         \* history: ids of the steps dropped from the pipeline so far
    lastOp,             \* history: the handler that ran last, and the pipeline length it saw
    fn,                 \* function bench: which evaluator is exercised
    arg,                \* function bench: its inputs
    out,                \* function bench: the results produced so far
    pc                  \* function bench: position in the call sequence

vars == <<inputText, steps, copyInputStatus, copyOutputStatus, isLibraryOpen,
          insertPosition, nextId, pending, completed, removedIds, lastOp, fn, arg, out, pc>>

uiVars == <<inputText, steps, copyInputStatus, copyOutputStatus, isLibraryOpen,
            insertPosition, nextId, pending, completed, removedIds, lastOp>>

copyVars == <<pending, completed>>

benchVars == <<fn, arg, out, pc>>

-----------------------------------------------------------------------------
(* Numbers and strings                                                     *)

N(n) == 2 * n

IsInteger(v) == v % 2 = 0

\* ToLength / ToUint16 of a non-negative number: truncation
Trunc(v) == v \div 2

\* JavaScript %: the remainder takes the sign of the dividend
JsRem(a, b) == IF a >= 0 THEN a % b ELSE -((-a) % b)

Min(a, b) == IF a <= b THEN a ELSE b

Max(a, b) == IF a >= b THEN a ELSE b

\* the value of a throwing call
Threw == <<-1>>

RECURSIVE Concat(_)
\* Array.prototype.join(""): the concatenation of a sequence of strings
Concat(parts) ==
    IF parts = <<>> THEN <<>> ELSE Head(parts) \o Concat(Tail(parts))

\* code units with a name
SP == 32
DOLLAR == 36
AMP == 38
APOSTROPHE == 39
DOT == 46
BACKSLASH == 92
UNDERSCORE == 95
BACKTICK == 96
NBSP == 160
CAPITAL_I_DOT == 304        \* U+0130, lower-cases to "i" + U+0307
COMBINING_DOT == 775        \* U+0307
KELVIN == 8490              \* U+212A, lower-cases to "k"
HI_SURROGATE == 55357       \* U+D83D
LO_SURROGATE == 56832       \* U+DE00

\* String.prototype.toLowerCase on one code unit (a string of 1 or 2 units)
LowerOf(c) ==
    IF c >= 65 /\ c <= 90 THEN <<c + 32>>
    ELSE IF c = KELVIN THEN <<107>>
    ELSE IF c = CAPITAL_I_DOT THEN <<105, COMBINING_DOT>>
    ELSE IF c >= 1040 /\ c <= 1071 THEN <<c + 32>>
    ELSE <<c>>

\* String.prototype.toUpperCase on one code unit
UpperOf(c) ==
    IF c >= 97 /\ c <= 122 THEN <<c - 32>>
    ELSE IF c >= 1072 /\ c <= 1103 THEN <<c - 32>>
    ELSE <<c>>

toLowerCase(text) == Concat([i \in 1..Len(text) |-> LowerOf(text[i])])

toUpperCase(text) == Concat([i \in 1..Len(text) |-> UpperOf(text[i])])

\* String.fromCharCode(v): ToUint16 truncates the fraction
fromCharCode(v) == Trunc(v) % 65536

\* Unicode property Letter (\p{L}) on the code units of the model
IsLetter(c) ==
    \/ c >= 65 /\ c <= 90
    \/ c >= 97 /\ c <= 122
    \/ c >= 1040 /\ c <= 1103
    \/ c = KELVIN
    \/ c = CAPITAL_I_DOT

\* \w without the i and u case folding: [A-Za-z0-9_]
IsWordChar(c) ==
    \/ c >= 65 /\ c <= 90
    \/ c >= 97 /\ c <= 122
    \/ c >= 48 /\ c <= 57
    \/ c = UNDERSCORE

\* \s (and what trim() strips)
IsSpace(c) == c \in {9, 10, 11, 12, 13, SP, NBSP}

-----------------------------------------------------------------------------
(* Validators                                                              *)

MAX_SHIFT == 100
MIN_RAILS == 2
MAX_RAILS == 10

\* Number(value): what the conversion of a control's value, or of a stored
\* number, yields: a number v (in halves), or NaN
Num(v) == [isNaN |-> FALSE, v |-> v]

NaN == [isNaN |-> TRUE, v |-> 0]

clampShift(value) ==
    LET asNumber == value
    IN  IF asNumber.isNaN THEN N(0)
        ELSE Min(N(MAX_SHIFT), Max(N(0), asNumber.v))

clampRails(value) ==
    LET asNumber == value
    IN  IF asNumber.isNaN THEN N(3)
        ELSE Min(N(MAX_RAILS), Max(N(MIN_RAILS), asNumber.v))

-----------------------------------------------------------------------------
(* Letter algebra                                                          *)

\* mutant: the shifted index is not reduced modulo 26
shiftLetter_noWrap(char, shift, preserveCase) ==
    LET lower == LowerOf(char)
        code == lower[1]
    IN  IF code < 97 \/ code > 122 THEN char
        ELSE LET shifted == fromCharCode(N(code - 97) + shift + N(97))
             IN  IF ~preserveCase THEN shifted
                 ELSE IF char >= 65 /\ char <= 90 THEN UpperOf(shifted)[1]
                 ELSE shifted

shiftLetter(char, shift, preserveCase) ==
    LET lower == LowerOf(char)
        code == lower[1]
    IN  IF code < 97 \/ code > 122 THEN char
        ELSE LET shifted == fromCharCode(JsRem(N(code - 97) + shift, N(26)) + N(97))
             IN  IF ~preserveCase THEN shifted
                 ELSE IF char >= 65 /\ char <= 90 THEN UpperOf(shifted)[1]
                 ELSE shifted

caesarCipher(text, shift, preserveCase) ==
    [i \in 1..Len(text) |-> shiftLetter(text[i], shift, preserveCase)]

reverseText(text) == [i \in 1..Len(text) |-> text[Len(text) + 1 - i]]

-----------------------------------------------------------------------------
(* Replace                                                                 *)

\* the class [.*+?^${}()|[\]\\] of escapeRegex
RegexSpecial == {46, 42, 43, 63, 94, 36, 123, 125, 40, 41, 124, 91, 93, 92}

\* text.replace(/[.*+?^${}()|[\]\\]/g, "\\$&")
escapeRegex(text) ==
    Concat([i \in 1..Len(text) |->
              IF text[i] \in RegexSpecial THEN <<BACKSLASH, text[i]>> ELSE <<text[i]>>])

RECURSIVE RegExpAtoms(_)
\* new RegExp(source, flags) of a source without character classes, groups or
\* quantifiers: the atoms of the pattern, an identity escape \c standing for c
RegExpAtoms(source) ==
    IF source = <<>> THEN <<>>
    ELSE IF Head(source) = BACKSLASH /\ Len(source) >= 2
         THEN <<source[2]>> \o RegExpAtoms(SubSeq(source, 3, Len(source)))
         ELSE <<Head(source)>> \o RegExpAtoms(Tail(source))

\* Canonicalize(ch) of a pattern with the i flag and without the u flag
Canonicalize(ch) ==
    LET s == UpperOf(ch)
    IN  IF Len(s) # 1 THEN ch
        ELSE IF ch >= 128 /\ s[1] < 128 THEN ch
        ELSE s[1]

\* whether the atoms match text at position pos (1-based)
MatchesAt(text, atoms, pos, ignoreCase) ==
    /\ pos + Len(atoms) - 1 <= Len(text)
    /\ \A k \in 1..Len(atoms) :
          IF ignoreCase
          THEN Canonicalize(text[pos + k - 1]) = Canonicalize(atoms[k])
          ELSE text[pos + k - 1] = atoms[k]

RECURSIVE GetSubstitution(_, _, _, _)
\* the expansion of a replacement string for a match without capture groups:
\* $$ -> $, $& -> the match, $` -> what precedes it, $' -> what follows it
GetSubstitution(matched, str, position, replacement) ==
    IF replacement = <<>> THEN <<>>
    ELSE IF Head(replacement) = DOLLAR /\ Len(replacement) >= 2
         THEN LET c    == replacement[2]
                  rest == SubSeq(replacement, 3, Len(replacement))
              IN  IF c = DOLLAR THEN <<DOLLAR>> \o GetSubstitution(matched, str, position, rest)
                  ELSE IF c = AMP THEN matched \o GetSubstitution(matched, str, position, rest)
                  ELSE IF c = BACKTICK
                       THEN SubSeq(str, 1, position - 1)
                            \o GetSubstitution(matched, str, position, rest)
                  ELSE IF c = APOSTROPHE
                       THEN SubSeq(str, position + Len(matched), Len(str))
                            \o GetSubstitution(matched, str, position, rest)
                  ELSE <<DOLLAR>> \o GetSubstitution(matched, str, position, Tail(replacement))
         ELSE <<Head(replacement)>> \o GetSubstitution(matched, str, position, Tail(replacement))

RECURSIVE ReplaceFrom(_, _, _, _, _)
\* String.prototype.replace with a global pattern and a replacement string,
\* from position pos on: leftmost matches, not overlapping
ReplaceFrom(text, atoms, replacement, ignoreCase, pos) ==
    IF pos > Len(text) THEN <<>>
    ELSE IF MatchesAt(text, atoms, pos, ignoreCase)
         THEN GetSubstitution(SubSeq(text, pos, pos + Len(atoms) - 1), text, pos, replacement)
              \o ReplaceFrom(text, atoms, replacement, ignoreCase, pos + Len(atoms))
         ELSE <<text[pos]>> \o ReplaceFrom(text, atoms, replacement, ignoreCase, pos + 1)

replaceText(text, fromText, toText, matchCase) ==
    IF fromText = <<>> THEN text
    ELSE LET pattern == RegExpAtoms(escapeRegex(fromText))
         IN  ReplaceFrom(text, pattern, toText, ~matchCase, 1)

-----------------------------------------------------------------------------
(* Case transform                                                          *)

\* \b at position pos: exactly one of the neighbours is a word character
WordBoundary(text, pos) ==
    LET before == pos > 1 /\ IsWordChar(text[pos - 1])
        after  == pos <= Len(text) /\ IsWordChar(text[pos])
    IN  before # after

RECURSIVE LetterRunEnd(_, _)
\* the last position of the run of letters that starts at pos: (\p{L}*) is greedy
LetterRunEnd(text, pos) ==
    IF pos < Len(text) /\ IsLetter(text[pos + 1])
    THEN LetterRunEnd(text, pos + 1)
    ELSE pos

RECURSIVE TitleFrom(_, _)
TitleFrom(text, pos) ==
    IF pos > Len(text) THEN <<>>
    ELSE IF WordBoundary(text, pos) /\ IsLetter(text[pos])
         THEN LET last == LetterRunEnd(text, pos)
              IN  UpperOf(text[pos])
                  \o toLowerCase(SubSeq(text, pos + 1, last))
                  \o TitleFrom(text, last + 1)
         ELSE <<text[pos]>> \o TitleFrom(text, pos + 1)

\* text.replace(/\b(\p{L})(\p{L}*)/gu, (_, first, rest) => first.toUpperCase() + rest.toLowerCase())
toTitleCase(text) == TitleFrom(text, 1)

toggleCase(text) ==
    Concat([i \in 1..Len(text) |->
              LET char  == <<text[i]>>
                  lower == LowerOf(text[i])
                  upper == UpperOf(text[i])
              IN  IF lower = upper THEN char
                  ELSE IF char = lower THEN upper ELSE lower])

transformCase(text, caseMode) ==
    CASE caseMode = "upper"  -> toUpperCase(text)
      [] caseMode = "lower"  -> toLowerCase(text)
      [] caseMode = "title"  -> toTitleCase(text)
      [] caseMode = "toggle" -> toggleCase(text)
      [] OTHER               -> text

-----------------------------------------------------------------------------
(* A1Z26                                                                   *)

\* String(n) of an integer 1..26: its decimal digits
DecimalString(n) ==
    IF n < 10 THEN <<48 + n>> ELSE <<48 + (n \div 10), 48 + (n % 10)>>

RECURSIVE JoinWith(_, _)
\* Array.prototype.join(separator)
JoinWith(parts, separator) ==
    IF parts = <<>> THEN <<>>
    ELSE IF Len(parts) = 1 THEN Head(parts)
    ELSE Head(parts) \o separator \o JoinWith(Tail(parts), separator)

RECURSIVE SpaceRunEnd(_, _)
\* the last position of the run of white space that starts at pos
SpaceRunEnd(text, pos) ==
    IF pos < Len(text) /\ IsSpace(text[pos + 1])
    THEN SpaceRunEnd(text, pos + 1)
    ELSE pos

RECURSIVE CollapseFrom(_, _)
\* .replace(/\s{2,}/g, " ")
CollapseFrom(text, pos) ==
    IF pos > Len(text) THEN <<>>
    ELSE IF IsSpace(text[pos]) /\ SpaceRunEnd(text, pos) > pos
         THEN <<SP>> \o CollapseFrom(text, SpaceRunEnd(text, pos) + 1)
         ELSE <<text[pos]>> \o CollapseFrom(text, pos + 1)

RECURSIVE TrimStart(_)
TrimStart(text) ==
    IF text # <<>> /\ IsSpace(Head(text)) THEN TrimStart(Tail(text)) ELSE text

RECURSIVE TrimEnd(_)
TrimEnd(text) ==
    IF text # <<>> /\ IsSpace(text[Len(text)])
    THEN TrimEnd(SubSeq(text, 1, Len(text) - 1))
    ELSE text

\* String.prototype.trim
Trim(text) == TrimEnd(TrimStart(text))

a1z26Encode(text) ==
    LET mapped == [i \in 1..Len(text) |->
                     LET lower == LowerOf(text[i])
                         code  == lower[1]
                     IN  IF code < 97 \/ code > 122 THEN <<text[i]>>
                         ELSE DecimalString(code - 96)]
    IN  Trim(CollapseFrom(JoinWith(mapped, <<SP>>), 1))

IsDigit(c) == c >= 48 /\ c <= 57

\* the length of the match of \b([1-9]|1[0-9]|2[0-6])\b at pos, 0 when there is
\* none; the alternatives are tried in their order
TokenLengthAt(text, pos) ==
    IF ~WordBoundary(text, pos) THEN 0
    ELSE IF /\ text[pos] >= 49 /\ text[pos] <= 57
            /\ WordBoundary(text, pos + 1)
         THEN 1
    ELSE IF /\ pos + 1 <= Len(text)
            /\ text[pos] = 49
            /\ IsDigit(text[pos + 1])
            /\ WordBoundary(text, pos + 2)
         THEN 2
    ELSE IF /\ pos + 1 <= Len(text)
            /\ text[pos] = 50
            /\ text[pos + 1] >= 48 /\ text[pos + 1] <= 54
            /\ WordBoundary(text, pos + 2)
         THEN 2
    ELSE 0

\* Number(match) of a one- or two-digit match
TokenValue(text, pos, length) ==
    IF length = 1 THEN text[pos] - 48
    ELSE 10 * (text[pos] - 48) + (text[pos + 1] - 48)

RECURSIVE DecodeFrom(_, _)
DecodeFrom(text, pos) ==
    IF pos > Len(text) THEN <<>>
    ELSE LET length == TokenLengthAt(text, pos)
         IN  IF length > 0
             THEN <<(96 + TokenValue(text, pos, length)) % 65536>>
                  \o DecodeFrom(text, pos + length)
             ELSE <<text[pos]>> \o DecodeFrom(text, pos + 1)

\* text.replace(/\b([1-9]|1[0-9]|2[0-6])\b/g, (match) => String.fromCharCode(96 + Number(match)))
a1z26Decode(text) == DecodeFrom(text, 1)

-----------------------------------------------------------------------------
(* Vigenere                                                                *)

RECURSIVE KeepLowerLetters(_)
\* .replace(/[^a-z]/g, "")
KeepLowerLetters(text) ==
    IF text = <<>> THEN <<>>
    ELSE IF Head(text) >= 97 /\ Head(text) <= 122
         THEN <<Head(text)>> \o KeepLowerLetters(Tail(text))
         ELSE KeepLowerLetters(Tail(text))

getVigenereKey(key) ==
    LET letters == KeepLowerLetters(toLowerCase(key))
    IN  [i \in 1..Len(letters) |-> letters[i] - 97]

RECURSIVE VigenereFrom(_, _, _, _, _, _)
\* the map callback of vigenereCipher from position pos on, keyIndex being the
\* number of letters consumed so far
VigenereFrom(text, keyOffsets, mode, preserveCase, pos, keyIndex) ==
    IF pos > Len(text) THEN <<>>
    ELSE LET char  == text[pos]
             lower == LowerOf(char)
             code  == lower[1]
         IN  IF code < 97 \/ code > 122
             THEN <<char>>
                  \o VigenereFrom(text, keyOffsets, mode, preserveCase, pos + 1, keyIndex)
             ELSE LET offset == keyOffsets[(keyIndex % Len(keyOffsets)) + 1]
                      shift  == IF mode = "decode" THEN (26 - offset) % 26 ELSE offset
                  IN  <<shiftLetter(char, N(shift), preserveCase)>>
                      \o VigenereFrom(text, keyOffsets, mode, preserveCase, pos + 1, keyIndex + 1)

vigenereCipher(text, key, mode, preserveCase) ==
    LET keyOffsets == getVigenereKey(key)
    IN  IF Len(keyOffsets) = 0 THEN text
        ELSE VigenereFrom(text, keyOffsets, mode, preserveCase, 1, 0)

-----------------------------------------------------------------------------
(* Rail fence                                                              *)

IsHighSurrogate(c) == c >= 55296 /\ c <= 56319

IsLowSurrogate(c) == c >= 56320 /\ c <= 57343

RECURSIVE CodePoints(_)
\* the string iterator (for ... of): one element per code point, a surrogate
\* pair being one element of two code units
CodePoints(text) ==
    IF text = <<>> THEN <<>>
    ELSE IF /\ Len(text) >= 2
            /\ IsHighSurrogate(text[1])
            /\ IsLowSurrogate(text[2])
         THEN <<SubSeq(text, 1, 2)>> \o CodePoints(SubSeq(text, 3, Len(text)))
         ELSE <<SubSeq(text, 1, 1)>> \o CodePoints(Tail(text))

RECURSIVE ZigZag(_, _, _, _)
\* the rows visited by n iterations of the loop body
\*   if (row === 0) direction = 1; if (row === rails - 1) direction = -1; row += direction
\* started at row with direction
ZigZag(n, rails, row, direction) ==
    IF n = 0 THEN <<>>
    ELSE LET d1 == IF row = 0 THEN 1 ELSE direction
             d2 == IF N(row) = rails - N(1) THEN -1 ELSE d1
         IN  <<row>> \o ZigZag(n - 1, rails, row + d2, d2)

\* the elements of items whose row is r, in order
RECURSIVE OnRow(_, _, _)
OnRow(items, rows, r) ==
    IF items = <<>> THEN <<>>
    ELSE IF Head(rows) = r
         THEN <<Head(items)>> \o OnRow(Tail(items), Tail(rows), r)
         ELSE OnRow(Tail(items), Tail(rows), r)

railFenceEncode(text, rails) ==
    IF rails <= N(1) \/ Len(text) <= 1 THEN text
    ELSE LET chars    == CodePoints(text)
             fenceLen == Trunc(rails)       \* Array.from({ length: rails })
             rows     == ZigZag(Len(chars), rails, 0, 1)
         IN  IF \E j \in 1..Len(rows) : rows[j] >= fenceLen
             THEN Threw                     \* fence[row] is undefined: TypeError
             ELSE Concat([r \in 1..fenceLen |-> Concat(OnRow(chars, rows, r - 1))])

\* how many of the first n entries of pattern are rail
CountRail(pattern, n, rail) == Cardinality({j \in 1..n : pattern[j] = rail})

RECURSIVE SumCounts(_, _, _)
\* cursor when the loop over the rails reaches rail: the counts of the rails before it
SumCounts(pattern, rail, acc) ==
    IF rail = 0 THEN acc
    ELSE SumCounts(pattern, rail - 1, acc + CountRail(pattern, Len(pattern), rail - 1))

railFenceDecode(cipher, rails) ==
    IF rails <= N(1) \/ Len(cipher) <= 1 THEN cipher
    ELSE LET pattern == ZigZag(Len(cipher), rails, 0, 1)
         IN  IF ~IsInteger(rails)
             THEN Threw                     \* Array(rails): RangeError
             ELSE [i \in 1..Len(cipher) |->
                     LET rail   == pattern[i]
                         cursor == SumCounts(pattern, rail, 0)
                         read   == CountRail(pattern, i - 1, rail)
                     IN  cipher[cursor + read + 1]]

-----------------------------------------------------------------------------
(* Steps                                                                   *)

ENABLED_OPERATIONS ==
    {"caesar", "reverse", "replace", "case-transform", "rot13", "a1z26",
     "vigenere", "rail-fence"}

MODE_OPERATIONS == {"caesar", "a1z26", "vigenere", "rail-fence"}

\* "KEY"
DefaultKey == <<75, 69, 89>>

DEFAULT_STEP_BY_TYPE(type) ==
    CASE type = "caesar"         -> [mode |-> "encode", shift |-> N(3), preserveCase |-> TRUE]
      [] type = "reverse"        -> <<>>
      [] type = "replace"        -> [fromText |-> <<>>, toText |-> <<>>, matchCase |-> TRUE]
      [] type = "case-transform" -> [caseMode |-> "upper"]
      [] type = "rot13"          -> <<>>
      [] type = "a1z26"          -> [mode |-> "encode"]
      [] type = "vigenere"       -> [mode |-> "encode", key |-> DefaultKey, preserveCase |-> TRUE]
      [] type = "rail-fence"     -> [mode |-> "encode", rails |-> N(3)]

\* { ...a, ...b }
Spread(a, b) ==
    [k \in (DOMAIN a) \cup (DOMAIN b) |-> IF k \in DOMAIN b THEN b[k] ELSE a[k]]

createStep(id, type) ==
    Spread([id |-> id, type |-> type],
           IF type \in ENABLED_OPERATIONS
           THEN DEFAULT_STEP_BY_TYPE(type)
           ELSE DEFAULT_STEP_BY_TYPE("caesar"))

applyStep(text, step) ==
    CASE step.type = "caesar" ->
            LET normalizedShift == JsRem(JsRem(step.shift, N(26)) + N(26), N(26))
                effectiveShift  == IF step.mode = "encode" THEN normalizedShift
                                   ELSE JsRem(N(26) - normalizedShift, N(26))
            IN  caesarCipher(text, effectiveShift, step.preserveCase)
      [] step.type = "reverse" -> reverseText(text)
      [] step.type = "replace" ->
            replaceText(text, step.fromText, step.toText, step.matchCase)
      [] step.type = "case-transform" -> transformCase(text, step.caseMode)
      [] step.type = "rot13" -> caesarCipher(text, N(13), TRUE)
      [] step.type = "a1z26" ->
            IF step.mode = "decode" THEN a1z26Decode(text) ELSE a1z26Encode(text)
      [] step.type = "vigenere" ->
            vigenereCipher(text, step.key, step.mode, step.preserveCase)
      [] step.type = "rail-fence" ->
            IF step.mode = "decode"
            THEN railFenceDecode(text, clampRails(Num(step.rails)))
            ELSE railFenceEncode(text, clampRails(Num(step.rails)))
      [] OTHER -> text

-----------------------------------------------------------------------------
(* Pipeline executor                                                       *)

RECURSIVE Reduce(_, _)
\* list.reduce((transformed, step) => applyStep(transformed, step), acc); a
\* throwing applyStep ends the reduction
Reduce(list, acc) ==
    IF list = <<>> THEN acc
    ELSE LET transformed == applyStep(acc, Head(list))
         IN  IF transformed = Threw THEN Threw
             ELSE Reduce(Tail(list), transformed)

RECURSIVE MapStages_fromInput(_, _)
\* mutant: the closure variable is never advanced, every step sees the input
MapStages_fromInput(list, transformed) ==
    IF list = <<>> THEN <<>>
    ELSE LET next == applyStep(transformed, Head(list))
         IN  IF next = Threw THEN <<Threw>>
             ELSE <<next>> \o MapStages_fromInput(Tail(list), transformed)

RECURSIVE MapStages(_, _)
\* the map callback of stageOutputs, transformed being the closure variable
MapStages(list, transformed) ==
    IF list = <<>> THEN <<>>
    ELSE LET next == applyStep(transformed, Head(list))
         IN  IF next = Threw THEN <<Threw>>
             ELSE <<next>> \o MapStages(Tail(list), next)

outputText == Reduce(steps, inputText)

\* a throwing applyStep ends the map: the memo has no value
stageOutputs ==
    LET stages == MapStages(steps, inputText)
    IN  IF stages # <<>> /\ stages[Len(stages)] = Threw THEN Threw ELSE stages

-----------------------------------------------------------------------------
(* Event handlers of App                                                   *)

\* bounds of the model
MaxId == 3

\* what the textarea delivers: "" and "ab"
InputTexts == {<<>>, <<97, 98>>}

\* the library items the model clicks; "morse" is a disabled item
LibraryItems == {"caesar", "reverse", "a1z26", "morse"}

StepIds(list) == {list[i].id : i \in 1..Len(list)}

RECURSIVE Filter(_, _)
\* current.filter((step) => step.id !== id)
Filter(list, id) ==
    IF list = <<>> THEN <<>>
    ELSE IF Head(list).id # id
         THEN <<Head(list)>> \o Filter(Tail(list), id)
         ELSE Filter(Tail(list), id)

\* next.splice(position, 0, item) on a copy (position 0-based)
SpliceIn(list, position, item) ==
    SubSeq(list, 1, position) \o <<item>> \o SubSeq(list, position + 1, Len(list))

\* next.splice(index, 1) on a copy (index 0-based)
SpliceOut(list, index) ==
    SubSeq(list, 1, index) \o SubSeq(list, index + 2, Len(list))

\* current.findIndex((step) => step.id === id), 0-based, -1 when absent
FindIndex(list, id) ==
    IF \E i \in 1..Len(list) : list[i].id = id
    THEN (CHOOSE i \in 1..Len(list) :
            /\ list[i].id = id
            /\ \A j \in 1..(i - 1) : list[j].id # id) - 1
    ELSE -1

ResetCopyStatus ==
    /\ copyInputStatus' = "idle"
    /\ copyOutputStatus' = "idle"

\* textarea onChange
setInput(value) ==
    /\ inputText' = value
    /\ ResetCopyStatus
    /\ UNCHANGED <<steps, isLibraryOpen, insertPosition, nextId>>

\* mutant: the patch is spread into every step
updateStep_everyStep(id, patch) ==
    /\ steps' = [i \in 1..Len(steps) |-> Spread(steps[i], patch)]
    /\ ResetCopyStatus
    /\ UNCHANGED <<inputText, isLibraryOpen, insertPosition, nextId>>

updateStep(id, patch) ==
    /\ steps' = [i \in 1..Len(steps) |->
                   IF steps[i].id = id THEN Spread(steps[i], patch) ELSE steps[i]]
    /\ ResetCopyStatus
    /\ UNCHANGED <<inputText, isLibraryOpen, insertPosition, nextId>>

openLibraryAt(position) ==
    /\ insertPosition' = position
    /\ isLibraryOpen' = TRUE
    /\ UNCHANGED <<inputText, steps, copyInputStatus, copyOutputStatus, nextId>>

\* the backdrop's and the close button's onClick
closeLibrary ==
    /\ isLibraryOpen
    /\ isLibraryOpen' = FALSE
    /\ UNCHANGED <<inputText, steps, copyInputStatus, copyOutputStatus, insertPosition, nextId>>

\* mutant: the new step is appended, whatever insertPosition is
addOperation_append(operationId) ==
    /\ isLibraryOpen
    /\ IF operationId \notin ENABLED_OPERATIONS
       THEN UNCHANGED <<inputText, steps, copyInputStatus, copyOutputStatus,
                        isLibraryOpen, insertPosition, nextId>>
       ELSE /\ nextId' = nextId + 1
            /\ steps' = Append(steps, createStep(nextId, operationId))
            /\ ResetCopyStatus
            /\ isLibraryOpen' = FALSE
            /\ UNCHANGED <<inputText, insertPosition>>

\* the library's items are rendered while isLibraryOpen
addOperation(operationId) ==
    /\ isLibraryOpen
    /\ IF operationId \notin ENABLED_OPERATIONS
       THEN UNCHANGED <<inputText, steps, copyInputStatus, copyOutputStatus,
                        isLibraryOpen, insertPosition, nextId>>
       ELSE LET id           == nextId
                safePosition == Min(Max(insertPosition, 0), Len(steps))
            IN  /\ nextId' = nextId + 1
                /\ steps' = SpliceIn(steps, safePosition, createStep(id, operationId))
                /\ ResetCopyStatus
                /\ isLibraryOpen' = FALSE
                /\ UNCHANGED <<inputText, insertPosition>>

\* mutant: the guard on the last step is missing
removeStep_unguarded(id) ==
    /\ steps' = Filter(steps, id)
    /\ ResetCopyStatus
    /\ UNCHANGED <<inputText, isLibraryOpen, insertPosition, nextId>>

removeStep(id) ==
    /\ steps' = IF Len(steps) <= 1 THEN <<createStep(1, "caesar")>> ELSE Filter(steps, id)
    /\ ResetCopyStatus
    /\ UNCHANGED <<inputText, isLibraryOpen, insertPosition, nextId>>

\* mutant: the direction is ignored, every move goes up
moveStep_alwaysUp(id, direction) ==
    /\ LET index       == FindIndex(steps, id)
           targetIndex == index - 1
       IN  steps' = IF index < 0 THEN steps
                    ELSE IF targetIndex < 0 \/ targetIndex >= Len(steps) THEN steps
                    ELSE SpliceIn(SpliceOut(steps, index), targetIndex, steps[index + 1])
    /\ ResetCopyStatus
    /\ UNCHANGED <<inputText, isLibraryOpen, insertPosition, nextId>>

moveStep(id, direction) ==
    /\ LET index       == FindIndex(steps, id)
           targetIndex == IF direction = "up" THEN index - 1 ELSE index + 1
       IN  steps' = IF index < 0 THEN steps
                    ELSE IF targetIndex < 0 \/ targetIndex >= Len(steps) THEN steps
                    ELSE SpliceIn(SpliceOut(steps, index), targetIndex, steps[index + 1])
    /\ ResetCopyStatus
    /\ UNCHANGED <<inputText, isLibraryOpen, insertPosition, nextId>>

\* mutant: the counter restarts at the id of the step the reset creates
resetPipeline_counterFromOne ==
    /\ steps' = <<createStep(1, "caesar")>>
    /\ nextId' = 1
    /\ ResetCopyStatus
    /\ UNCHANGED <<inputText, isLibraryOpen, insertPosition>>

resetPipeline ==
    /\ steps' = <<createStep(1, "caesar")>>
    /\ nextId' = 2
    /\ ResetCopyStatus
    /\ UNCHANGED <<inputText, isLibraryOpen, insertPosition>>

clearAll ==
    /\ inputText' = <<>>
    /\ steps' = <<createStep(1, "caesar")>>
    /\ nextId' = 2
    /\ ResetCopyStatus
    /\ UNCHANGED <<isLibraryOpen, insertPosition>>

\* the patches the mode select issues for a step
ModePatches(step) ==
    IF step.type \in MODE_OPERATIONS
    THEN {[mode |-> m] : m \in {"encode", "decode"}}
    ELSE {}

-----------------------------------------------------------------------------
(* Spec: the component under its handlers                                  *)

InitUi ==
    /\ inputText = <<>>
    /\ steps = <<createStep(1, "caesar")>>
    /\ copyInputStatus = "idle"
    /\ copyOutputStatus = "idle"
    /\ isLibraryOpen = FALSE
    /\ insertPosition = 0
    /\ nextId = 2
    /\ pending = {}
    /\ completed = [input |-> <<>>, output |-> <<>>]
    /\ removedIds = {}
    /\ lastOp = [op |-> "init", len |-> 0]

InitBench ==
    /\ fn = "none"
    /\ arg = <<>>
    /\ out = <<>>
    /\ pc = "idle"

Init == InitUi /\ InitBench

\* history: the handler that runs and the pipeline length it sees
Track(op) ==
    /\ lastOp' = [op |-> op, len |-> Len(steps)]
    /\ UNCHANGED removedIds
    /\ UNCHANGED copyVars
    /\ UNCHANGED benchVars

SetInput == \E value \in InputTexts : setInput(value) /\ Track("setInput")

UpdateStep ==
    \E i \in 1..Len(steps) : \E patch \in ModePatches(steps[i]) :
        updateStep(steps[i].id, patch) /\ Track("updateStep")

OpenLibrary ==
    \E position \in {0, Len(steps)} : openLibraryAt(position) /\ Track("openLibraryAt")

CloseLibrary == closeLibrary /\ Track("closeLibrary")

AddOperation ==
    \E operationId \in LibraryItems :
        nextId <= MaxId /\ addOperation(operationId) /\ Track("addOperation")

RemoveStep == \E i \in 1..Len(steps) : removeStep(steps[i].id) /\ Track("removeStep")

\* the up and down buttons of a card, of the current render or of a stale one
MoveStep ==
    \E id \in 1..MaxId : \E direction \in {"up", "down"} :
        moveStep(id, direction) /\ Track("moveStep")

ResetPipeline == resetPipeline /\ Track("resetPipeline")

ClearAll == clearAll /\ Track("clearAll")

Next ==
    \/ SetInput
    \/ UpdateStep
    \/ OpenLibrary
    \/ CloseLibrary
    \/ AddOperation
    \/ RemoveStep
    \/ MoveStep
    \/ ResetPipeline
    \/ ClearAll

Spec == Init /\ [][Next]_vars

-----------------------------------------------------------------------------
(* SpecIds: the same handlers, with the ids dropped so far as history      *)

\* history: the ids of the steps a handler drops from the pipeline
TrackIds(dropped) ==
    /\ removedIds' = removedIds \cup dropped
    /\ UNCHANGED lastOp
    /\ UNCHANGED copyVars
    /\ UNCHANGED benchVars

IdsUpdateStep ==
    \E i \in 1..Len(steps) : \E patch \in ModePatches(steps[i]) :
        updateStep(steps[i].id, patch) /\ TrackIds({})

IdsOpenLibrary ==
    \E position \in {0, Len(steps)} : openLibraryAt(position) /\ TrackIds({})

IdsAddOperation ==
    \E operationId \in LibraryItems :
        nextId <= MaxId /\ addOperation(operationId) /\ TrackIds({})

IdsRemoveStep ==
    \E i \in 1..Len(steps) :
        /\ removeStep(steps[i].id)
        /\ TrackIds(IF Len(steps) <= 1 THEN StepIds(steps) ELSE {steps[i].id})

IdsMoveStep ==
    \E i \in 1..Len(steps) : \E direction \in {"up", "down"} :
        moveStep(steps[i].id, direction) /\ TrackIds({})

IdsResetPipeline == resetPipeline /\ TrackIds(StepIds(steps))

IdsClearAll == clearAll /\ TrackIds(StepIds(steps))

NextIds ==
    \/ IdsUpdateStep
    \/ IdsOpenLibrary
    \/ IdsAddOperation
    \/ IdsRemoveStep
    \/ IdsMoveStep
    \/ IdsResetPipeline
    \/ IdsClearAll

SpecIds == Init /\ [][NextIds]_vars

-----------------------------------------------------------------------------
(* Claims on the pipeline                                                  *)

\* C2: the pipeline always holds at least one step, and removeStep on a
\* pipeline of exactly one step leaves exactly the default step (Caesar,
\* mode encode, shift 3, preserveCase true).
C2_NeverEmpty ==
    /\ Len(steps) >= 1
    /\ (lastOp.op = "removeStep" /\ lastOp.len = 1) =>
          steps = <<[id |-> 1, type |-> "caesar", mode |-> "encode",
                     shift |-> N(3), preserveCase |-> TRUE]>>

\* removeStep has run on a pipeline whose only step had been added from the library
C2_Witness ==
    /\ lastOp.op = "removeStep"
    /\ lastOp.len = 1
    /\ nextId = 3
    /\ Len(steps) = 1

\* C3: a step id that has been removed is never given to a step created later:
\* no id enters the pipeline that a handler dropped before.
C3_NoIdReuse ==
    [][\A n \in StepIds(steps') \ StepIds(steps) : n \notin removedIds]_vars

\* C4: no two steps of the pipeline have the same id.
C4_UniqueIds ==
    \A i, j \in 1..Len(steps) : i # j => steps[i].id # steps[j].id

\* the id-1 step recreated by removeStep stands beside a step whose id came
\* from the counter afterwards
C4_Witness ==
    /\ 1 \in removedIds
    /\ \E i, j \in 1..Len(steps) :
          /\ steps[i].id = 1
          /\ steps[j].id >= 2
          /\ steps[j].id \notin removedIds

-----------------------------------------------------------------------------
(* Function bench: an evaluator applied to inputs drawn from bounded sets  *)

\* every string over alphabet of at most maxLen code units
TextsOver(alphabet, maxLen) == UNION {[1..n -> alphabet] : n \in 0..maxLen}

Idle == UNCHANGED uiVars

-----------------------------------------------------------------------------
(* SpecRun: one render of the two memos over drawn inputs                  *)

MaxRunSteps == 2

\* "", "abc", "Ab 1", "b" + U+212A
RunTexts == {<<>>, <<97, 98, 99>>, <<65, 98, SP, 49>>, <<98, KELVIN>>}

\* parameter records of each kind, among them what the controls can store
RunParams ==
    {[type |-> "caesar", mode |-> "encode", shift |-> N(3), preserveCase |-> TRUE],
     [type |-> "caesar", mode |-> "decode", shift |-> N(29), preserveCase |-> FALSE],
     [type |-> "reverse"],
     [type |-> "replace", fromText |-> <<98>>, toText |-> <<98, 98>>, matchCase |-> FALSE],
     [type |-> "case-transform", caseMode |-> "title"],
     [type |-> "case-transform", caseMode |-> "toggle"],
     [type |-> "rot13"],
     [type |-> "a1z26", mode |-> "encode"],
     [type |-> "a1z26", mode |-> "decode"],
     [type |-> "vigenere", mode |-> "encode", key |-> DefaultKey, preserveCase |-> TRUE],
     [type |-> "rail-fence", mode |-> "encode", rails |-> N(2)],
     [type |-> "rail-fence", mode |-> "decode", rails |-> N(3)],
     [type |-> "rail-fence", mode |-> "encode", rails |-> N(2) + 1]}

\* the pipelines of 1..MaxRunSteps steps, the step at position i having id i
RunPipelines ==
    UNION {{[i \in 1..n |-> Spread([id |-> i], params[i])] : params \in [1..n -> RunParams]}
           : n \in 1..MaxRunSteps}

InitRun ==
    /\ inputText \in RunTexts
    /\ steps \in RunPipelines
    /\ copyInputStatus = "idle"
    /\ copyOutputStatus = "idle"
    /\ isLibraryOpen = FALSE
    /\ insertPosition = 0
    /\ nextId = 2
    /\ pending = {}
    /\ completed = [input |-> <<>>, output |-> <<>>]
    /\ removedIds = {}
    /\ lastOp = [op |-> "init", len |-> 0]
    /\ fn = "run"
    /\ arg = <<>>
    /\ out = <<>>
    /\ pc = "ready"

\* a render: both memos are computed from inputText and steps
Render ==
    /\ pc = "ready"
    /\ out' = [outputText |-> outputText, stageOutputs |-> stageOutputs]
    /\ pc' = "done"
    /\ UNCHANGED <<fn, arg>>
    /\ Idle

NextRun == Render

SpecRun == InitRun /\ [][NextRun]_vars

RECURSIVE FoldLeft(_)
\* acc_0 = inputText, acc_i = applyStep(acc_(i-1), steps[i]); a throw stays
FoldLeft(i) ==
    IF i = 0 THEN inputText
    ELSE LET before == FoldLeft(i - 1)
         IN  IF before = Threw THEN Threw ELSE applyStep(before, steps[i])

\* C1: the executor is a left fold. Where no step throws, stageOutputs has one
\* entry per step, entry i is applyStep of step i on entry i-1 (on the input
\* text for the first step), and outputText is the last entry; where a step
\* throws, both memos throw. [Caesar(encode,3), Reverse] on "abc" gives the
\* stages "def" and "fed".
C1_LeftFold ==
    (fn = "run" /\ pc = "done") =>
        /\ IF \E i \in 1..Len(steps) : FoldLeft(i) = Threw
           THEN out.stageOutputs = Threw /\ out.outputText = Threw
           ELSE /\ Len(out.stageOutputs) = Len(steps)
                /\ \A i \in 1..Len(steps) :
                      out.stageOutputs[i] =
                         applyStep(IF i = 1 THEN inputText ELSE out.stageOutputs[i - 1],
                                   steps[i])
                /\ out.outputText = out.stageOutputs[Len(steps)]
        /\ ( /\ inputText = <<97, 98, 99>>
             /\ Len(steps) = 2
             /\ steps[1].type = "caesar" /\ steps[1].mode = "encode"
             /\ steps[1].shift = N(3)
             /\ steps[2].type = "reverse" )
           => out.stageOutputs[2] = <<102, 101, 100>>

\* the render of [Caesar(encode,3), Reverse] on "abc"
C1_Witness ==
    /\ fn = "run" /\ pc = "done"
    /\ inputText = <<97, 98, 99>>
    /\ Len(steps) = 2
    /\ steps[1].type = "caesar" /\ steps[1].mode = "encode" /\ steps[1].shift = N(3)
    /\ steps[2].type = "reverse"
    /\ out.stageOutputs = <<(<<100, 101, 102>>), (<<102, 101, 100>>)>>
    /\ out.outputText = <<102, 101, 100>>

-----------------------------------------------------------------------------
(* SpecCaesar: a Caesar step in encode mode, then one in decode mode       *)

CaesarLen == 2

\* a, z, A, Z
CaesarLetters == {97, 122, 65, 90}

CaesarStep(mode) ==
    [id |-> 1, type |-> "caesar", mode |-> mode, shift |-> N(arg.shift),
     preserveCase |-> arg.preserveCase]

InitCaesar ==
    /\ InitUi
    /\ fn = "caesar"
    /\ arg \in [text : TextsOver(CaesarLetters, CaesarLen),
                shift : 0..MAX_SHIFT,
                preserveCase : BOOLEAN]
    /\ out = <<>>
    /\ pc = "encode"

CaesarEncode ==
    /\ fn = "caesar" /\ pc = "encode"
    /\ out' = <<applyStep(arg.text, CaesarStep("encode"))>>
    /\ pc' = "decode"
    /\ UNCHANGED <<fn, arg>>
    /\ Idle

CaesarDecode ==
    /\ fn = "caesar" /\ pc = "decode"
    /\ out' = Append(out, applyStep(out[1], CaesarStep("decode")))
    /\ pc' = "done"
    /\ UNCHANGED <<fn, arg>>
    /\ Idle

NextCaesar == CaesarEncode \/ CaesarDecode

SpecCaesar == InitCaesar /\ [][NextCaesar]_vars

\* C5 as claimed: for every shift 0..100, every text of ASCII letters and either
\* preserveCase, encode then decode returns exactly the text.
C5_RoundTripAnyCase ==
    (fn = "caesar" /\ pc = "done") => out[2] = arg.text

\* C5 as amended: encode then decode returns the text when preserveCase is
\* true, and the text folded to lower case when preserveCase is false.
C5_RoundTrip ==
    (fn = "caesar" /\ pc = "done") =>
        out[2] = IF arg.preserveCase THEN arg.text ELSE toLowerCase(arg.text)

\* a round trip of mixed-case text under a shift that wraps
C5_Witness ==
    /\ fn = "caesar" /\ pc = "done"
    /\ arg.shift = 29
    /\ arg.preserveCase
    /\ arg.text = <<122, 65>>
    /\ out[1] = <<99, 68>>
    /\ out[2] = <<122, 65>>

-----------------------------------------------------------------------------
(* SpecVigenere: vigenereCipher in encode mode, then in decode mode        *)

VigenereLen == 3

\* "attack at dawn"
AttackAtDawn == <<97, 116, 116, 97, 99, 107, 32, 97, 116, 32, 100, 97, 119, 110>>

\* a, Z, space, 1, U+212A
VigenereChars == {97, 90, SP, 49, KELVIN}

\* the keys of one or two letters over a, B, z, and "KEY"
VigenereKeys == (TextsOver({97, 66, 122}, 2) \ {<<>>}) \cup {DefaultKey}

VigenereStep(mode) ==
    [id |-> 1, type |-> "vigenere", mode |-> mode, key |-> arg.key, preserveCase |-> TRUE]

InitVigenere ==
    /\ InitUi
    /\ fn = "vigenere"
    /\ arg \in [text : TextsOver(VigenereChars, VigenereLen) \cup {AttackAtDawn},
                key : VigenereKeys]
    /\ out = <<>>
    /\ pc = "encode"

VigenereEncode ==
    /\ fn = "vigenere" /\ pc = "encode"
    /\ out' = <<applyStep(arg.text, VigenereStep("encode"))>>
    /\ pc' = "decode"
    /\ UNCHANGED <<fn, arg>>
    /\ Idle

VigenereDecode ==
    /\ fn = "vigenere" /\ pc = "decode"
    /\ out' = Append(out, applyStep(out[1], VigenereStep("decode")))
    /\ pc' = "done"
    /\ UNCHANGED <<fn, arg>>
    /\ Idle

NextVigenere == VigenereEncode \/ VigenereDecode

SpecVigenere == InitVigenere /\ [][NextVigenere]_vars

\* C6: for every non-empty key of letters and every text, with preserveCase
\* true, decoding the encoding with the same key returns exactly the text.
C6_RoundTrip ==
    (fn = "vigenere" /\ pc = "done") => out[2] = arg.text

-----------------------------------------------------------------------------
(* SpecRail: railFenceEncode, then railFenceDecode                         *)

RailLen == 4

WeAreDiscovered ==
    <<87, 69, 65, 82, 69, 68, 73, 83, 67, 79, 86, 69, 82, 69, 68, 70, 76, 69, 69, 65,
      84, 79, 78, 67, 69>>

WeAreDiscoveredOn3Rails ==
    <<87, 69, 67, 82, 76, 84, 69, 69, 82, 68, 83, 79, 69, 69, 70, 69, 65, 79, 67, 65,
      73, 86, 68, 69, 78>>

\* a, b, and the two halves of U+1F600
RailChars == {97, 98, HI_SURROGATE, LO_SURROGATE}

InitRail ==
    /\ InitUi
    /\ fn = "rail-fence"
    /\ arg \in [text : TextsOver(RailChars, RailLen) \cup {WeAreDiscovered},
                rails : MIN_RAILS..MAX_RAILS]
    /\ out = <<>>
    /\ pc = "encode"

RailEncode ==
    /\ fn = "rail-fence" /\ pc = "encode"
    /\ out' = <<railFenceEncode(arg.text, N(arg.rails))>>
    /\ pc' = "decode"
    /\ UNCHANGED <<fn, arg>>
    /\ Idle

RailDecode ==
    /\ fn = "rail-fence" /\ pc = "decode"
    /\ out' = Append(out, railFenceDecode(out[1], N(arg.rails)))
    /\ pc' = "done"
    /\ UNCHANGED <<fn, arg>>
    /\ Idle

NextRail == RailEncode \/ RailDecode

SpecRail == InitRail /\ [][NextRail]_vars

\* C7: for every rail count 2..10 and every text, railFenceDecode of
\* railFenceEncode returns the text, and "WEAREDISCOVEREDFLEEATONCE" on 3 rails
\* encodes to "WECRLTEERDSOEEFEAOCAIVDEN".
C7_RoundTrip ==
    (fn = "rail-fence" /\ pc = "done") =>
        /\ out[2] = arg.text
        /\ (arg.text = WeAreDiscovered /\ arg.rails = 3) => out[1] = WeAreDiscoveredOn3Rails

-----------------------------------------------------------------------------
(* SpecA1Z26: a1z26Encode, then a1z26Decode                                *)

A1Z26Len == 3

\* "abc xyz"
AbcXyz == <<97, 98, 99, 32, 120, 121, 122>>

\* a, Z, space, 1, -
A1Z26Chars == {97, 90, SP, 49, 45}

InitA1Z26 ==
    /\ InitUi
    /\ fn = "a1z26"
    /\ arg \in [text : TextsOver(A1Z26Chars, A1Z26Len) \cup {AbcXyz}]
    /\ out = <<>>
    /\ pc = "encode"

A1Z26EncodeStep ==
    /\ fn = "a1z26" /\ pc = "encode"
    /\ out' = <<a1z26Encode(arg.text)>>
    /\ pc' = "decode"
    /\ UNCHANGED <<fn, arg>>
    /\ Idle

A1Z26DecodeStep ==
    /\ fn = "a1z26" /\ pc = "decode"
    /\ out' = Append(out, a1z26Decode(out[1]))
    /\ pc' = "done"
    /\ UNCHANGED <<fn, arg>>
    /\ Idle

NextA1Z26 == A1Z26EncodeStep \/ A1Z26DecodeStep

SpecA1Z26 == InitA1Z26 /\ [][NextA1Z26]_vars

RECURSIVE AsciiLetters(_)
\* the ASCII letters of a text, in order
AsciiLetters(text) ==
    IF text = <<>> THEN <<>>
    ELSE IF (Head(text) >= 65 /\ Head(text) <= 90) \/ (Head(text) >= 97 /\ Head(text) <= 122)
         THEN <<Head(text)>> \o AsciiLetters(Tail(text))
         ELSE AsciiLetters(Tail(text))

\* C8: the letters of a1z26Decode(a1z26Encode(x)) are the ASCII letters of x
\* folded to lower case, in order; the non-letters of x contribute no letter.
C8_LetterSequence ==
    (fn = "a1z26" /\ pc = "done") =>
        AsciiLetters(out[2]) = toLowerCase(AsciiLetters(arg.text))

-----------------------------------------------------------------------------
(* SpecReplace: a Replace step whose fromText and toText are the same      *)

ReplaceLen == 2

\* a, A, $
ReplaceChars == {97, 65, DOLLAR}

InitReplace ==
    /\ InitUi
    /\ fn = "replace"
    /\ arg \in [text : TextsOver(ReplaceChars, ReplaceLen + 1),
                f : TextsOver(ReplaceChars, ReplaceLen),
                matchCase : BOOLEAN]
    /\ out = <<>>
    /\ pc = "apply"

ReplaceSame ==
    /\ fn = "replace" /\ pc = "apply"
    /\ out' = <<applyStep(arg.text,
                          [id |-> 1, type |-> "replace", fromText |-> arg.f,
                           toText |-> arg.f, matchCase |-> arg.matchCase])>>
    /\ pc' = "done"
    /\ UNCHANGED <<fn, arg>>
    /\ Idle

NextReplace == ReplaceSame

SpecReplace == InitReplace /\ [][NextReplace]_vars

\* C9: a Replace step whose fromText and toText are the same string returns
\* the text unchanged, for either matchCase.
C9_SameTextIdentity ==
    (fn = "replace" /\ pc = "done") => out[1] = arg.text

-----------------------------------------------------------------------------
(* SpecApply: applyStep on a step as the controls can leave it             *)

\* Number(event.target.value) of a range or number input: NaN, -1, 0, 2.5, 3,
\* 11, 29, 101
NumberInputs ==
    {NaN, Num(N(0) - N(1)), Num(N(0)), Num(N(2) + 1), Num(N(3)), Num(N(11)), Num(N(29)),
     Num(N(101))}

\* event.target.value of a text input: "", "a", "$&", "1"
TextInputs == {<<>>, <<97>>, <<DOLLAR, AMP>>, <<49>>}

\* mutant: the number inputs store Number(value) without the validators
ControlPatches_unclamped(step) ==
    CASE step.type = "caesar" ->
            {[shift |-> IF value.isNaN THEN N(0) ELSE value.v] : value \in NumberInputs}
      [] step.type = "rail-fence" ->
            {[rails |-> IF value.isNaN THEN N(0) ELSE value.v] : value \in NumberInputs}
      [] OTHER -> {}

\* the patches the controls of renderStepControls issue for a step
ControlPatches(step) ==
    CASE step.type = "caesar" ->
            {[shift |-> clampShift(value)] : value \in NumberInputs}
            \cup {[preserveCase |-> checked] : checked \in BOOLEAN}
      [] step.type = "replace" ->
            {[fromText |-> value] : value \in TextInputs}
            \cup {[toText |-> value] : value \in TextInputs}
            \cup {[matchCase |-> checked] : checked \in BOOLEAN}
      [] step.type = "case-transform" ->
            {[caseMode |-> value] : value \in {"upper", "lower", "title", "toggle"}}
      [] step.type = "vigenere" ->
            {[key |-> value] : value \in TextInputs}
            \cup {[preserveCase |-> checked] : checked \in BOOLEAN}
      [] step.type = "rail-fence" ->
            {[rails |-> clampRails(value)] : value \in NumberInputs}
      [] OTHER -> {}

\* a step after at most one edit of its mode and one edit of another control
EditedSteps ==
    LET created == {createStep(1, type) : type \in ENABLED_OPERATIONS}
        moded   == created \cup
                   UNION {{Spread(step, patch) : patch \in ModePatches(step)} : step \in created}
    IN  moded \cup
        UNION {{Spread(step, patch) : patch \in ControlPatches(step)} : step \in moded}

\* "", "a", "ab", "abc", "A 1", the Cyrillic "дa", U+1F600
ApplyTexts ==
    {<<>>, <<97>>, <<97, 98>>, <<97, 98, 99>>, <<65, SP, 49>>, <<1076, 97>>,
     <<HI_SURROGATE, LO_SURROGATE>>}

InitApply ==
    /\ InitUi
    /\ fn = "applyStep"
    /\ arg \in [text : ApplyTexts, step : EditedSteps]
    /\ out = <<>>
    /\ pc = "apply"

Apply ==
    /\ fn = "applyStep" /\ pc = "apply"
    /\ out' = <<applyStep(arg.text, arg.step)>>
    /\ pc' = "done"
    /\ UNCHANGED <<fn, arg>>
    /\ Idle

NextApply == Apply

SpecApply == InitApply /\ [][NextApply]_vars

\* C10: applyStep returns a string and never throws, for every text and every
\* step the defaults and the controls can produce, and returns the empty text
\* on the empty text.
C10_Total ==
    (fn = "applyStep" /\ pc = "done") =>
        /\ out[1] # Threw
        /\ \A i \in 1..Len(out[1]) : out[1][i] \in 0..65535
        /\ arg.text = <<>> => out[1] = <<>>

-----------------------------------------------------------------------------
(* SpecEdit: steps created from the library and edited through the controls *)

EditTrack(op) ==
    /\ lastOp' = [op |-> op, len |-> Len(steps)]
    /\ UNCHANGED removedIds
    /\ UNCHANGED copyVars
    /\ UNCHANGED benchVars

EditOpenLibrary ==
    \E position \in {0, Len(steps)} : openLibraryAt(position) /\ EditTrack("openLibraryAt")

EditAddOperation ==
    \E operationId \in ENABLED_OPERATIONS :
        nextId < MaxId /\ addOperation(operationId) /\ EditTrack("addOperation")

\* an onChange of any control of any step card
EditControl ==
    \E i \in 1..Len(steps) : \E patch \in ModePatches(steps[i]) \cup ControlPatches(steps[i]) :
        updateStep(steps[i].id, patch) /\ EditTrack("updateStep")

EditRemoveStep ==
    \E i \in 1..Len(steps) : removeStep(steps[i].id) /\ EditTrack("removeStep")

EditMoveStep ==
    \E i \in 1..Len(steps) : \E direction \in {"up", "down"} :
        moveStep(steps[i].id, direction) /\ EditTrack("moveStep")

EditResetPipeline == resetPipeline /\ EditTrack("resetPipeline")

NextEdit ==
    \/ EditOpenLibrary
    \/ EditAddOperation
    \/ EditControl
    \/ EditRemoveStep
    \/ EditMoveStep
    \/ EditResetPipeline

SpecEdit == Init /\ [][NextEdit]_vars

\* the parameters of a step are within the domain of its kind
InDomain(step) ==
    /\ step.type = "caesar" => step.shift >= N(0) /\ step.shift <= N(MAX_SHIFT)
    /\ step.type = "rail-fence" =>
          /\ step.rails >= N(MIN_RAILS) /\ step.rails <= N(MAX_RAILS)
          /\ LET received == clampRails(Num(step.rails))
             IN  received >= N(MIN_RAILS) /\ received <= N(MAX_RAILS)
    /\ step.type \in MODE_OPERATIONS => step.mode \in {"encode", "decode"}
    /\ step.type = "case-transform" => step.caseMode \in {"upper", "lower", "title", "toggle"}

-----------------------------------------------------------------------------
(* SpecClamp: the validators on the value strings of a number control      *)

ClampLen == 3

MINUS == 45
PLUS == 43

RECURSIVE DigitsValue(_)
\* the mathematical value of a string of decimal digits
DigitsValue(digits) ==
    IF digits = <<>> THEN 0
    ELSE 10 * DigitsValue(SubSeq(digits, 1, Len(digits) - 1)) + (digits[Len(digits)] - 48)

\* a fraction that is a whole number of halves: "", zeros, or 5 and zeros
HalfExact(frac) ==
    \A i \in 1..Len(frac) : frac[i] = 48 \/ (i = 1 /\ frac[i] = 53)

\* Number(value) of a string (StringToNumber) over signs, decimal digits, the
\* dot and white space: white space is trimmed, the empty string is 0, a
\* signed decimal literal is its value, anything else is NaN
Number(value) ==
    LET t        == Trim(value)
        signed   == t # <<>> /\ t[1] \in {MINUS, PLUS}
        negative == t # <<>> /\ t[1] = MINUS
        body     == IF signed THEN Tail(t) ELSE t
        dot      == IF \E i \in 1..Len(body) : body[i] = DOT
                    THEN CHOOSE i \in 1..Len(body) :
                            body[i] = DOT /\ \A j \in 1..(i - 1) : body[j] # DOT
                    ELSE 0
        whole    == IF dot = 0 THEN body ELSE SubSeq(body, 1, dot - 1)
        frac     == IF dot = 0 THEN <<>> ELSE SubSeq(body, dot + 1, Len(body))
        literal  == /\ \A i \in 1..Len(whole) : IsDigit(whole[i])
                    /\ \A i \in 1..Len(frac) : IsDigit(frac[i])
                    /\ Len(whole) + Len(frac) > 0
        halves   == N(DigitsValue(whole)) + (IF frac # <<>> /\ frac[1] = 53 THEN 1 ELSE 0)
    IN  IF t = <<>> THEN Num(N(0))
        ELSE IF ~literal THEN NaN
        ELSE Num(IF negative THEN -halves ELSE halves)

\* the fraction digits of a string, if it has a dot
FractionOf(value) ==
    IF \E i \in 1..Len(value) : value[i] = DOT
    THEN LET dot == CHOOSE i \in 1..Len(value) :
                        value[i] = DOT /\ \A j \in 1..(i - 1) : value[j] # DOT
         IN  Trim(SubSeq(value, dot + 1, Len(value)))
    ELSE <<>>

\* event.target.value: the strings over 0, 5, ., -, a and the space whose
\* number, if they have one, is a whole number of halves
ControlValues ==
    {value \in TextsOver({48, 53, DOT, MINUS, 97, SP}, ClampLen) :
        Number(value).isNaN \/ HalfExact(FractionOf(value))}

InitClamp ==
    /\ InitUi
    /\ fn = "clamp"
    /\ arg \in ControlValues
    /\ out = <<>>
    /\ pc = "shift"

ClampShift ==
    /\ fn = "clamp" /\ pc = "shift"
    /\ out' = <<clampShift(Number(arg))>>
    /\ pc' = "rails"
    /\ UNCHANGED <<fn, arg>>
    /\ Idle

ClampRails ==
    /\ fn = "clamp" /\ pc = "rails"
    /\ out' = Append(out, clampRails(Number(arg)))
    /\ pc' = "done"
    /\ UNCHANGED <<fn, arg>>
    /\ Idle

NextClamp == ClampShift \/ ClampRails

SpecClamp == InitClamp /\ [][NextClamp]_vars

\* saturation of v into [lo, hi]
Saturate(v, lo, hi) == IF v < lo THEN lo ELSE IF v > hi THEN hi ELSE v

\* C12: a non-numeric value counts as 0, and the value is saturated into the
\* bound: clampShift into [0,100], clampRails into [2,10]; so a non-numeric
\* value gives shift 0 and rails 2.
C12_Saturating ==
    (fn = "clamp" /\ pc = "done") =>
        LET asNumber == Number(arg)
            coerced  == IF asNumber.isNaN THEN N(0) ELSE asNumber.v
        IN  /\ out[1] = Saturate(coerced, N(0), N(MAX_SHIFT))
            /\ out[2] = Saturate(coerced, N(MIN_RAILS), N(MAX_RAILS))

-----------------------------------------------------------------------------
(* SpecSubst: a Replace step with any fromText and toText                  *)

SubstLen == 2

\* a, A, $, &
SubstChars == {97, 65, DOLLAR, AMP}

InitSubst ==
    /\ InitUi
    /\ fn = "substitute"
    /\ arg \in [text : TextsOver(SubstChars, SubstLen),
                fromText : TextsOver(SubstChars, SubstLen),
                toText : TextsOver(SubstChars \ {65}, 2),
                matchCase : BOOLEAN]
    /\ out = <<>>
    /\ pc = "apply"

Substitute ==
    /\ fn = "substitute" /\ pc = "apply"
    /\ out' = <<applyStep(arg.text,
                          [id |-> 1, type |-> "replace", fromText |-> arg.fromText,
                           toText |-> arg.toText, matchCase |-> arg.matchCase])>>
    /\ pc' = "done"
    /\ UNCHANGED <<fn, arg>>
    /\ Idle

NextSubst == Substitute

SpecSubst == InitSubst /\ [][NextSubst]_vars

\* fromText occurs in text at pos, compared case-sensitively iff matchCase
OccursAt(text, fromText, pos, matchCase) ==
    /\ pos + Len(fromText) - 1 <= Len(text)
    /\ \A k \in 1..Len(fromText) :
          IF matchCase
          THEN text[pos + k - 1] = fromText[k]
          ELSE LowerOf(text[pos + k - 1]) = LowerOf(fromText[k])

RECURSIVE LiteralReplaceFrom(_, _, _, _, _)
\* text from pos on, every occurrence of fromText (left to right, not
\* overlapping) replaced by the characters of toText
LiteralReplaceFrom(text, fromText, toText, matchCase, pos) ==
    IF pos > Len(text) THEN <<>>
    ELSE IF OccursAt(text, fromText, pos, matchCase)
         THEN toText \o LiteralReplaceFrom(text, fromText, toText, matchCase,
                                           pos + Len(fromText))
         ELSE <<text[pos]>> \o LiteralReplaceFrom(text, fromText, toText, matchCase, pos + 1)

\* C13: replaceText returns the text with every non-overlapping occurrence of
\* a non-empty fromText, scanned left to right, replaced by exactly the
\* characters of toText, and the text itself when fromText is empty.
C13_LiteralReplace ==
    (fn = "substitute" /\ pc = "done") =>
        out[1] = IF arg.fromText = <<>> THEN arg.text
                 ELSE LiteralReplaceFrom(arg.text, arg.fromText, arg.toText, arg.matchCase, 1)

-----------------------------------------------------------------------------
(* SpecShift: one Caesar step with preserveCase on any text                *)

ShiftLen == 2

\* "Hello World", "Khoor Zruog"
HelloWorld == <<72, 101, 108, 108, 111, 32, 87, 111, 114, 108, 100>>

KhoorZruog == <<75, 104, 111, 111, 114, 32, 90, 114, 117, 111, 103>>

\* a, z, A, Z, space, 1, the Cyrillic д, U+212A, U+0130
ShiftChars == {97, 122, 65, 90, SP, 49, 1076, KELVIN, CAPITAL_I_DOT}

InitShift ==
    /\ InitUi
    /\ fn = "shift"
    /\ arg \in [text : TextsOver(ShiftChars, ShiftLen) \cup {HelloWorld, KhoorZruog},
                shift : 0..MAX_SHIFT,
                mode : {"encode", "decode"}]
    /\ out = <<>>
    /\ pc = "apply"

ShiftApply ==
    /\ fn = "shift" /\ pc = "apply"
    /\ out' = <<applyStep(arg.text,
                          [id |-> 1, type |-> "caesar", mode |-> arg.mode,
                           shift |-> N(arg.shift), preserveCase |-> TRUE])>>
    /\ pc' = "done"
    /\ UNCHANGED <<fn, arg>>
    /\ Idle

NextShift == ShiftApply

SpecShift == InitShift /\ [][NextShift]_vars

\* the letter the rule gives for code unit c under effective shift e
ShiftedByRule(c, e) ==
    IF c >= 65 /\ c <= 90 THEN 65 + ((c - 65 + e) % 26)
    ELSE IF c >= 97 /\ c <= 122 THEN 97 + ((c - 97 + e) % 26)
    ELSE c

\* C14: with preserveCase, a Caesar step replaces each ASCII letter of index p
\* by the letter of index (p + e) mod 26 in the same case, e being s mod 26
\* when encoding and (26 - s mod 26) mod 26 when decoding, and leaves every
\* other character unchanged at its position.
C14_ShiftRule ==
    (fn = "shift" /\ pc = "done") =>
        LET e == IF arg.mode = "encode" THEN arg.shift % 26
                 ELSE (26 - (arg.shift % 26)) % 26
        IN  out[1] = [i \in 1..Len(arg.text) |-> ShiftedByRule(arg.text[i], e)]

-----------------------------------------------------------------------------
(* SpecTitle: a Case-Transform step in title mode                          *)

TitleLen == 3

\* a, B, 1, _, space, the Cyrillic д and Д
TitleChars == {97, 66, 49, UNDERSCORE, SP, 1076, 1044}

InitTitle ==
    /\ InitUi
    /\ fn = "title"
    /\ arg \in TextsOver(TitleChars, TitleLen)
    /\ out = <<>>
    /\ pc = "apply"

TitleApply ==
    /\ fn = "title" /\ pc = "apply"
    /\ out' = <<applyStep(arg, [id |-> 1, type |-> "case-transform", caseMode |-> "title"])>>
    /\ pc' = "done"
    /\ UNCHANGED <<fn, arg>>
    /\ Idle

NextTitle == TitleApply

SpecTitle == InitTitle /\ [][NextTitle]_vars

\* the first letter of every maximal run of letters in upper case, the other
\* letters of the run in lower case, everything else as it is
TitleByRuns(text) ==
    Concat([i \in 1..Len(text) |->
              IF ~IsLetter(text[i]) THEN <<text[i]>>
              ELSE IF i = 1 \/ ~IsLetter(text[i - 1]) THEN UpperOf(text[i])
              ELSE LowerOf(text[i])])

\* C15: title mode upper-cases the first letter of every maximal run of
\* letters and lower-cases the rest of the run, whatever precedes the run,
\* and leaves the non-letters unchanged.
C15_TitleRuns ==
    (fn = "title" /\ pc = "done") => out[1] = TitleByRuns(arg)

-----------------------------------------------------------------------------
(* SpecKeyed: one Vigenere step with any key on any text                   *)

KeyedLen == 3

\* a, Z, space, 1, U+212A, U+0130
KeyedChars == {97, 90, SP, 49, KELVIN, CAPITAL_I_DOT}

\* the keys of at most two characters over a, B, 1 and the Cyrillic д, and "KEY"
KeyedKeys == TextsOver({97, 66, 49, 1076}, 2) \cup {DefaultKey}

InitKeyed ==
    /\ InitUi
    /\ fn = "keyed"
    /\ arg \in [text : TextsOver(KeyedChars, KeyedLen),
                key : KeyedKeys,
                mode : {"encode", "decode"},
                preserveCase : BOOLEAN]
    /\ out = <<>>
    /\ pc = "apply"

KeyedApply ==
    /\ fn = "keyed" /\ pc = "apply"
    /\ out' = <<applyStep(arg.text,
                          [id |-> 1, type |-> "vigenere", mode |-> arg.mode,
                           key |-> arg.key, preserveCase |-> arg.preserveCase])>>
    /\ pc' = "done"
    /\ UNCHANGED <<fn, arg>>
    /\ Idle

NextKeyed == KeyedApply

SpecKeyed == InitKeyed /\ [][NextKeyed]_vars

IsAsciiLetter(c) == (c >= 65 /\ c <= 90) \/ (c >= 97 /\ c <= 122)

\* the alphabet index of an ASCII letter
AlphabetIndex(c) == IF c <= 90 THEN c - 65 ELSE c - 97

\* the offsets of the key's ASCII letters, in order
OffsetsByRule(key) ==
    LET letters == AsciiLetters(key)
    IN  [j \in 1..Len(letters) |-> AlphabetIndex(letters[j])]

\* the number of ASCII letters of text before position i
LettersBefore(text, i) == Cardinality({k \in 1..(i - 1) : IsAsciiLetter(text[k])})

VigenereByRule(text, key, mode, preserveCase) ==
    LET offsets == OffsetsByRule(key)
    IN  IF offsets = <<>> THEN text
        ELSE [i \in 1..Len(text) |->
                IF ~IsAsciiLetter(text[i]) THEN text[i]
                ELSE LET offset == offsets[(LettersBefore(text, i) % Len(offsets)) + 1]
                         e      == IF mode = "decode" THEN (26 - offset) % 26 ELSE offset
                         index  == (AlphabetIndex(text[i]) + e) % 26
                     IN  IF preserveCase /\ text[i] <= 90 THEN 65 + index ELSE 97 + index]

\* C16: the offsets come from the key's letters only; the j-th ASCII letter of
\* the text is shifted by offset[j mod keyLength] (by 26 minus it, mod 26, when
\* decoding); non-letters are emitted unchanged and do not advance the key
\* index; with no offsets the text is returned unchanged.
C16_KeyedShift ==
    (fn = "keyed" /\ pc = "done") =>
        out[1] = VigenereByRule(arg.text, arg.key, arg.mode, arg.preserveCase)

-----------------------------------------------------------------------------
(* C17: the frame of updateStep                                            *)

\* what updateStep(id, patch) may change: the patched fields of the step
\* whose id matches, and nothing else of the pipeline
UpdateFrame(id, patch) ==
    /\ Len(steps') = Len(steps)
    /\ \A i \in 1..Len(steps) :
          IF steps[i].id # id THEN steps'[i] = steps[i]
          ELSE /\ DOMAIN steps'[i] = DOMAIN steps[i]
               /\ steps'[i].id = steps[i].id
               /\ steps'[i].type = steps[i].type
               /\ \A field \in DOMAIN steps[i] \ DOMAIN patch : steps'[i][field] = steps[i][field]
               /\ \A field \in DOMAIN patch : steps'[i][field] = patch[field]

\* a step that stays in the pipeline keeps its kind
KindKept ==
    \A i \in 1..Len(steps) : \A j \in 1..Len(steps') :
        steps'[j].id = steps[i].id => steps'[j].type = steps[i].type

\* C17: updateStep(id, patch), as any control issues it, changes only the
\* patched fields of the step with that id; its id and kind, the other steps,
\* their number and order are unchanged; and no handler changes the kind of a
\* step that stays in the pipeline.
C17_UpdateFrame ==
    [][/\ lastOp'.op = "updateStep" =>
             \A i \in 1..Len(steps) :
                \A patch \in ModePatches(steps[i]) \cup ControlPatches(steps[i]) :
                   updateStep(steps[i].id, patch) => UpdateFrame(steps[i].id, patch)
       /\ KindKept]_vars

\* the rails control of the second of two steps has been set to 10
C17_Witness ==
    /\ lastOp.op = "updateStep"
    /\ steps = <<createStep(1, "caesar"),
                 Spread(createStep(2, "rail-fence"), [rails |-> N(MAX_RAILS)])>>

-----------------------------------------------------------------------------
(* C18: the frame of moveStep                                              *)

\* the list with the elements at positions a and b (1-based) exchanged
Swapped(list, a, b) ==
    [i \in 1..Len(list) |-> IF i = a THEN list[b] ELSE IF i = b THEN list[a] ELSE list[i]]

\* what moveStep(id, direction) does to the pipeline
MoveFrame(id, direction) ==
    LET present  == \E i \in 1..Len(steps) : steps[i].id = id
        position == CHOOSE i \in 1..Len(steps) : steps[i].id = id
    IN  IF ~present THEN steps' = steps
        ELSE IF direction = "up" /\ position = 1 THEN steps' = steps
        ELSE IF direction = "down" /\ position = Len(steps) THEN steps' = steps
        ELSE IF direction = "up" THEN steps' = Swapped(steps, position, position - 1)
        ELSE steps' = Swapped(steps, position, position + 1)

\* C18: moveStep(id, direction) exchanges the step with that id and its
\* neighbour above (up) or below (down), changing no step and no other
\* position, and leaves the pipeline as it is when the id is absent, when the
\* first step moves up and when the last step moves down.
C18_AdjacentSwap ==
    [][lastOp'.op = "moveStep" =>
          \A id \in 1..MaxId : \A direction \in {"up", "down"} :
              moveStep(id, direction) => MoveFrame(id, direction)]_vars

\* step 1 has been moved down to the end of a pipeline of three
C18_Witness ==
    /\ lastOp.op = "moveStep"
    /\ Len(steps) = 3
    /\ steps[1].id = 2 /\ steps[2].id = 3 /\ steps[3].id = 1

-----------------------------------------------------------------------------
(* C19: insertion at the chosen position                                   *)

\* what addOperation(operationId) does after openLibraryAt(position)
InsertFrame(operationId, position) ==
    IF operationId \in ENABLED_OPERATIONS
    THEN /\ Len(steps') = Len(steps) + 1
         /\ steps'[position + 1] =
               Spread([id |-> nextId, type |-> operationId], DEFAULT_STEP_BY_TYPE(operationId))
         /\ nextId' = nextId + 1
         /\ \A i \in 1..position : steps'[i] = steps[i]
         /\ \A i \in (position + 1)..Len(steps) : steps'[i + 1] = steps[i]
    ELSE /\ steps' = steps
         /\ nextId' = nextId

-----------------------------------------------------------------------------
(* SpecCopy: copyText awaiting the clipboard while the texts are edited    *)

MaxPending == 2

\* copyText(text, setStatus, emptyKey) up to its await: an empty text sets the
\* empty status at once, any other text starts navigator.clipboard.writeText
copyText(target, text, emptyKey) ==
    IF text = <<>>
    THEN /\ copyInputStatus' = IF target = "input" THEN emptyKey ELSE copyInputStatus
         /\ copyOutputStatus' = IF target = "output" THEN emptyKey ELSE copyOutputStatus
         /\ UNCHANGED pending
    ELSE /\ pending' = pending \cup {[target |-> target, text |-> text]}
         /\ UNCHANGED <<copyInputStatus, copyOutputStatus>>

\* the continuation of copyText after its await: setStatus("copied") when the
\* write resolved, setStatus("denied") in the catch block
copyTextSettled(call, status) ==
    /\ call \in pending
    /\ pending' = pending \ {call}
    /\ copyInputStatus' = IF call.target = "input" THEN status ELSE copyInputStatus
    /\ copyOutputStatus' = IF call.target = "output" THEN status ELSE copyOutputStatus
    /\ completed' = [completed EXCEPT ![call.target] = call.text]

CopyFrame(op) ==
    /\ lastOp' = [op |-> op, len |-> Len(steps)]
    /\ UNCHANGED <<inputText, steps, isLibraryOpen, insertPosition, nextId, removedIds>>
    /\ UNCHANGED benchVars

CopyInput ==
    /\ Cardinality(pending) < MaxPending
    /\ copyText("input", inputText, "noInput")
    /\ UNCHANGED completed
    /\ CopyFrame("copyInput")

CopyOutput ==
    /\ Cardinality(pending) < MaxPending
    /\ copyText("output", outputText, "noOutput")
    /\ UNCHANGED completed
    /\ CopyFrame("copyOutput")

WriteResolved == \E call \in pending : copyTextSettled(call, "copied") /\ CopyFrame("resolved")

WriteRejected == \E call \in pending : copyTextSettled(call, "denied") /\ CopyFrame("rejected")

NextCopy ==
    \/ SetInput
    \/ UpdateStep
    \/ CopyInput
    \/ CopyOutput
    \/ WriteResolved
    \/ WriteRejected

SpecCopy == Init /\ [][NextCopy]_vars

\* C20: a copy status is "copied" (or "denied") only for the text that is
\* still current: the input text for copyInputStatus, the output text for
\* copyOutputStatus; no completion that arrives after an edit sets the
\* status for the older text.
C20_StatusIsCurrent ==
    /\ copyInputStatus \in {"copied", "denied"} => completed.input = inputText
    /\ copyOutputStatus \in {"copied", "denied"} => completed.output = outputText

====
